---------------------------- MODULE Spec2Model ----------------------------
(***************************************************************************)
(* A model of penrose_p2.py: the kite/dart tile, its turtle walk, the      *)
(* substitution rule Tile.inflate, the deduplicating inflate() over a      *)
(* collection, and the counted loop of iterate().                          *)
(*                                                                         *)
(* Numbers.  Every angle of the program is a multiple of 36 degrees and    *)
(* every length is a scale times 1 or PHI, so every real number the        *)
(* program approximates lies in the field Q(sqrt 5, sin 36).  A real is    *)
(* held exactly, as four integers <<a, b, c, d>> standing for              *)
(*        (a + b*PHI)/2 + (c + d*PHI)*sin(36 degrees),                     *)
(* and a scale or a distance as two integers <<a, b>> standing for         *)
(* a + b*PHI.  Two such tuples are equal exactly when the reals are.       *)
(*                                                                         *)
(* Doubles.  The program computes coordinates in IEEE doubles and compares *)
(* them with ==.  A coordinate is a record [val, rnd]: val is the real it  *)
(* approximates, rnd says which double near val the computation produced.  *)
(* One computation always produces one double; whether two different       *)
(* computations of one real produce the same double is decided by          *)
(* rounding, which the model does not compute.  The variable fpExact holds *)
(* the outcome for a run, chosen freely at the start: TRUE when every such *)
(* pair agrees (rnd is always empty), FALSE when no such pair agrees (rnd  *)
(* is the computation itself).  The program's real outcomes lie between    *)
(* the two.  The closed-form helpers of Vec2 that no modelled operation    *)
(* calls (__sub__, __mul__, dot, dist, length, norm) and the centroid,     *)
(* scale_by, svg and file output are left out.                             *)
(***************************************************************************)
EXTENDS Integers, Sequences, FiniteSets, TLC

VARIABLES
    fpExact,        \* the rounding outcome of this run (see above)
    initial_tiles,  \* the list the caller builds and passes to iterate()
    iters,          \* iterate()'s second argument
    tiles,          \* iterate()'s local `tiles`
    i,              \* the number of rounds of iterate()'s loop completed
    pc              \* "build", "loop", "done" or "raised"

vars == <<fpExact, initial_tiles, iters, tiles, i, pc>>

---------------------------------------------------------------------------
(* Bounds of the model. *)

\* The longest list of tiles a caller constructs by hand.
MaxMade == 2

\* The largest iteration count a caller passes to iterate().
MaxIters == 2

---------------------------------------------------------------------------
(* Exact arithmetic in Z[PHI] and Q(sqrt 5, sin 36). *)

\* PHI = (1 + sqrt 5) / 2, as a + b*PHI.
PHI == <<0, 1>>

ONE == <<1, 0>>

\* (a + b*PHI) * (c + d*PHI), using PHI^2 = PHI + 1.
ZMul(p, q) ==
    <<p[1] * q[1] + p[2] * q[2], p[1] * q[2] + p[2] * q[1] + p[2] * q[2]>>

\* s / PHI = s * (PHI - 1).
DivPhi(s) == <<s[2] - s[1], s[1]>>

NAdd(a, b) == <<a[1] + b[1], a[2] + b[2], a[3] + b[3], a[4] + b[4]>>

\* An integer n as a real: n = (2n + 0*PHI)/2.
NInt(n) == <<2 * n, 0, 0, 0>>

\* 2*cos(36k degrees) as a + b*PHI, k = 0..9 at index k+1.
CosTab ==
    << <<2, 0>>, <<0, 1>>, <<-1, 1>>, <<1, -1>>, <<0, -1>>,
       <<-2, 0>>, <<0, -1>>, <<1, -1>>, <<-1, 1>>, <<0, 1>> >>

\* sin(36k degrees) / sin(36 degrees) as a + b*PHI, k = 0..9 at index k+1.
SinTab ==
    << <<0, 0>>, <<1, 0>>, <<0, 1>>, <<0, 1>>, <<1, 0>>,
       <<0, 0>>, <<-1, 0>>, <<0, -1>>, <<0, -1>>, <<-1, 0>> >>

\* distance * math.cos(math.radians(angle)), angle a multiple of 36.
DCos(angle, distance) ==
    LET c == ZMul(distance, CosTab[((angle % 360) \div 36) + 1])
    IN  <<c[1], c[2], 0, 0>>

\* distance * math.sin(math.radians(angle)), angle a multiple of 36.
DSin(angle, distance) ==
    LET s == ZMul(distance, SinTab[((angle % 360) \div 36) + 1])
    IN  <<0, 0, s[1], s[2]>>

---------------------------------------------------------------------------
(* Doubles. *)

\* The double a computation `step` produces from an operand rounded as rnd.
Rounded(rnd, step) == IF fpExact THEN <<>> ELSE Append(rnd, step)

\* x + d for a double x and the double d that `step` produced, d standing
\* for the real dval: x itself when d is an exact zero, a rounded sum
\* otherwise.
FAdd(x, dval, step, exactZero) ==
    IF exactZero THEN x
    ELSE [val |-> NAdd(x.val, dval), rnd |-> Rounded(x.rnd, step)]

\* float(n) of an integer literal: exact.
Float(n) == [val |-> NInt(n), rnd |-> <<>>]

---------------------------------------------------------------------------
(* class Vec2 *)

Vec2(x, y) == [x |-> x, y |-> y]

ZERO == Vec2(Float(0), Float(0))

\* Vec2.__add__
Vec2Add(self, other) ==
    Vec2(FAdd(self.x, other.x.val, other.x.val, other.x = Float(0)),
         FAdd(self.y, other.y.val, other.y.val, other.y = Float(0)))

\* A faulty variant of Vec2.__eq__: without it Python compares by identity,
\* and two separately built points are never equal.
Vec2EqIdentity(self, other) == FALSE

\* Vec2.__eq__
Vec2Eq(self, other) == self.x = other.x /\ self.y = other.y

\* Vec2.offset.  distance * cos is the double 0.0 only for distance 0.0;
\* distance * sin also for angle 0, where math.sin returns 0.0 (at 180
\* degrees it returns a small nonzero double).
Offset(self, angle, distance) ==
    Vec2(FAdd(self.x, DCos(angle, distance),
              <<angle, distance[1], distance[2]>>,
              distance = <<0, 0>>),
         FAdd(self.y, DSin(angle, distance),
              <<angle, distance[1], distance[2]>>,
              distance = <<0, 0>> \/ angle = 0))

---------------------------------------------------------------------------
(* The shape templates and class Tile *)

KITE == << <<72, PHI>>, <<72, ONE>>, <<144, ONE>>, <<72, PHI>> >>

DART == << <<72, PHI>>, <<36, ONE>>, <<216, ONE>>, <<36, PHI>> >>

\* A template that is neither KITE nor DART: a regular pentagon of side 1.
PENTAGON ==
    << <<108, ONE>>, <<108, ONE>>, <<108, ONE>>, <<108, ONE>>, <<108, ONE>> >>

\* Tile.__init__
Tile(shape, location, heading, scale) ==
    [shape |-> shape, location |-> location, heading |-> heading,
     scale |-> scale]

\* A faulty variant of Tile.__eq__: comparison by identity.
TileEqIdentity(self, other) == FALSE

\* Tile.__eq__
TileEq(self, other) ==
    /\ self.shape = other.shape
    /\ Vec2Eq(self.location, other.location)
    /\ self.heading = other.heading
    /\ self.scale = other.scale

\* Tile.translate
Translate(self, dxy) ==
    Tile(self.shape, Vec2Add(self.location, dxy), self.heading, self.scale)

\* A faulty variant of the walk's heading: it turns by the template angle
\* itself instead of by 180 minus the angle.
RECURSIVE WalkHeadingInterior(_, _)
WalkHeadingInterior(self, n) ==
    IF n = 0 THEN self.heading
    ELSE (WalkHeadingInterior(self, n - 1) + self.shape[n][1]) % 360

\* The heading the walk of Tile.points holds after the first n edges.
RECURSIVE WalkHeading(_, _)
WalkHeading(self, n) ==
    IF n = 0 THEN self.heading
    ELSE (WalkHeading(self, n - 1) + (180 - self.shape[n][1])) % 360

\* The point the walk of Tile.points holds after the first n edges.
RECURSIVE WalkPoint(_, _)
WalkPoint(self, n) ==
    IF n = 0 THEN self.location
    ELSE Offset(WalkPoint(self, n - 1), WalkHeading(self, n),
                ZMul(self.shape[n][2], self.scale))

\* list(Tile.points()): the anchor, then one point per template edge.
Points(self) == [n \in 1..(Len(self.shape) + 1) |-> WalkPoint(self, n - 1)]

\* list(Tile.lines()): one line per consecutive pair of points, then the
\* line from the last point back to the first.
Lines(self) ==
    LET p == Points(self)
    IN  [n \in 1..Len(p) |->
            IF n < Len(p) THEN <<p[n].x, p[n].y, p[n + 1].x, p[n + 1].y>>
            ELSE <<p[n].x, p[n].y, p[1].x, p[1].y>>]

\* dart(p, h, s)
dart(p, h, s) == Tile(DART, p, h, s)

\* kite(p, h, s)
kite(p, h, s) == Tile(KITE, p, h, s)

\* A faulty variant of aa: the sum is not reduced mod 360.
aaNoWrap(a0, a1) == a0 + a1

\* aa(a0, a1) of Tile.inflate
aa(a0, a1) == (a0 + a1) % 360

RECURSIVE SumAngles(_, _)
SumAngles(shape, n) ==
    IF n = 0 THEN 0 ELSE SumAngles(shape, n - 1) + shape[n][1]

\* A faulty variant of an: the heading of the walk of Tile.points at
\* point n.
anWalk(self, n) == WalkHeading(self, n) % 360

\* an(n) of Tile.inflate
an(self, n) == (self.heading + SumAngles(self.shape, n)) % 360

\* Whether Tile.inflate returns (it raises NotImplementedError otherwise).
CanInflate(self) == self.shape = KITE \/ self.shape = DART

\* A faulty variant of Tile.inflate: the dart's last child is left out.
TileInflateShort(self) ==
    LET p == Points(self)
        h == self.heading
        s == DivPhi(self.scale)
    IN  IF self.shape = KITE
        THEN << dart(p[1], aa(h, -36), s),
                dart(p[1], aa(h, 36), s),
                kite(p[2], aa(an(self, 1), 36), s),
                kite(p[4], aa(an(self, 3), -36), s) >>
        ELSE << kite(p[1], h, s),
                dart(p[2], aa(an(self, 1), 72), s) >>

\* Tile.inflate, for a tile it does not raise on.  Python's p[k] is
\* Points(self)[k + 1].
TileInflate(self) ==
    LET p == Points(self)
        h == self.heading
        s == DivPhi(self.scale)
    IN  IF self.shape = KITE
        THEN << dart(p[1], aa(h, -36), s),
                dart(p[1], aa(h, 36), s),
                kite(p[2], aa(an(self, 1), 36), s),
                kite(p[4], aa(an(self, 3), -36), s) >>
        ELSE << kite(p[1], h, s),
                dart(p[2], aa(an(self, 1), 72), s),
                dart(p[4], aa(an(self, 3), -108), s) >>

\* SUN and STAR, in the order of the list each set is built from.
SUN == [k \in 1..5 |-> kite(ZERO, 72 * (k - 1), <<150, 0>>)]

STAR == [k \in 1..5 |-> dart(ZERO, 72 * (k - 1), <<150, 0>>)]

---------------------------------------------------------------------------
(* inflate(tiles) and iterate(initial_tiles, iters)                        *)
(* A Python set is held as the sequence of its members in insertion order. *)

\* Whether the set res holds a member equal to tile.
Member(res, tile) == \E k \in 1..Len(res) : TileEq(res[k], tile)

\* A faulty variant of res.add: the child is appended as to a list.
SetAddAlways(res, child) == Append(res, child)

\* res.add(child)
SetAdd(res, child) == IF Member(res, child) THEN res ELSE Append(res, child)

\* The inner loop of inflate: res.add(child) for each child, in order.
RECURSIVE AddAll(_, _, _)
AddAll(res, children, n) ==
    IF n = 0 THEN res
    ELSE SetAdd(AddAll(res, children, n - 1), children[n])

\* The outer loop of inflate over tiles lo..hi of ts, in order, starting
\* from the set res.  The range is halved, and the first half is finished
\* (the test on Len) before the second starts, so that the evaluation
\* nests only logarithmically deep; the tiles are taken first to last.
RECURSIVE InflateRange(_, _, _, _)
InflateRange(res, ts, lo, hi) ==
    IF lo > hi THEN res
    ELSE IF lo = hi
         THEN LET c == TileInflate(ts[lo]) IN AddAll(res, c, Len(c))
         ELSE LET mid == (lo + hi) \div 2
                  left == InflateRange(res, ts, lo, mid)
              IN  IF Len(left) >= 0
                  THEN InflateRange(left, ts, mid + 1, hi)
                  ELSE left

\* Whether inflate(tiles) raises: some tile's inflate does.
InflateRaises(ts) == \E k \in 1..Len(ts) : ~CanInflate(ts[k])

\* inflate(tiles), when it does not raise.
InflateAll(ts) == InflateRange(<<>>, ts, 1, Len(ts))

---------------------------------------------------------------------------
(* The inputs a caller draws from. *)

\* The module's two tile helpers, kite() and dart(), by their template.
Helpers == {KITE, DART}

\* The (heading, scale) pairs a caller passes to kite() and dart(): a
\* heading in [0, 360) and one outside it, a positive scale and a scale
\* that is not positive.
Calls == {<<0, ONE>>, <<396, ONE>>, <<0, <<0, 0>>>>}

\* main()'s offset Vec2(800, 500).
MainOffset == Vec2(Float(800), Float(500))

---------------------------------------------------------------------------
(* The state machine: a caller builds a list of tiles, calls iterate() on  *)
(* it, and iterate() runs its loop.                                        *)

Init ==
    /\ fpExact \in BOOLEAN
    /\ initial_tiles = <<>>
    /\ iters = 0
    /\ tiles = <<>>
    /\ i = 0
    /\ pc = "build"

\* The caller calls kite(ZERO, h, s) or dart(ZERO, h, s) and appends the
\* tile to its list.
MakeTile(shape, h, s) ==
    /\ pc = "build"
    /\ Len(initial_tiles) < MaxMade
    /\ initial_tiles' = Append(initial_tiles, Tile(shape, ZERO, h, s))
    /\ UNCHANGED <<fpExact, iters, tiles, i, pc>>

\* The caller calls Tile() itself, with a template of its own.
MakeOther ==
    /\ pc = "build"
    /\ Len(initial_tiles) < MaxMade
    /\ initial_tiles' = Append(initial_tiles, Tile(PENTAGON, ZERO, 0, ONE))
    /\ UNCHANGED <<fpExact, iters, tiles, i, pc>>

\* The caller takes the module's SUN or STAR.
UseSeed(seed) ==
    /\ pc = "build"
    /\ initial_tiles = <<>>
    /\ initial_tiles' = seed
    /\ UNCHANGED <<fpExact, iters, tiles, i, pc>>

\* main(): init = [t.translate(Vec2(800, 500)) for t in SUN]
TranslateSeed ==
    /\ pc = "build"
    /\ initial_tiles = SUN
    /\ initial_tiles' =
           [k \in 1..Len(initial_tiles) |-> Translate(initial_tiles[k], MainOffset)]
    /\ UNCHANGED <<fpExact, iters, tiles, i, pc>>

\* iterate(initial_tiles, n) is called: tiles = initial_tiles.
CallIterate(n) ==
    /\ pc = "build"
    /\ iters' = n
    /\ tiles' = initial_tiles
    /\ i' = 0
    /\ pc' = "loop"
    /\ UNCHANGED <<fpExact, initial_tiles>>

\* A faulty variant of the loop test: the last round is skipped.
LoopContinuesShort == i < iters - 1

\* Whether `for i in range(iters)` has a round left.
LoopContinues == i < iters

\* One round of the loop: tiles = inflate(tiles).
LoopRound ==
    /\ pc = "loop"
    /\ LoopContinues
    /\ ~InflateRaises(tiles)
    /\ tiles' = InflateAll(tiles)
    /\ i' = i + 1
    /\ UNCHANGED <<fpExact, initial_tiles, iters, pc>>

\* One round of the loop in which Tile.inflate raises NotImplementedError.
LoopRaise ==
    /\ pc = "loop"
    /\ LoopContinues
    /\ InflateRaises(tiles)
    /\ pc' = "raised"
    /\ UNCHANGED <<fpExact, initial_tiles, iters, tiles, i>>

\* The loop is over: return tiles.
LoopReturn ==
    /\ pc = "loop"
    /\ ~LoopContinues
    /\ pc' = "done"
    /\ UNCHANGED <<fpExact, initial_tiles, iters, tiles, i>>

Next ==
    \/ \E shape \in Helpers, c \in Calls : MakeTile(shape, c[1], c[2])
    \/ MakeOther
    \/ \E seed \in {SUN, STAR} : UseSeed(seed)
    \/ TranslateSeed
    \/ \E n \in 0..MaxIters : CallIterate(n)
    \/ LoopRound
    \/ LoopRaise
    \/ LoopReturn

Spec == Init /\ [][Next]_vars

---------------------------------------------------------------------------
(* Properties.                                                             *)

\* The sign of a + b*PHI = (u + v*sqrt 5)/2 with u = 2a + b, v = b.
ZPositive(s) ==
    LET u == 2 * s[1] + s[2]
        v == s[2]
    IN  \/ u > 0 /\ v >= 0
        \/ u >= 0 /\ v > 0
        \/ u > 0 /\ v < 0 /\ u * u > 5 * v * v
        \/ u < 0 /\ v > 0 /\ 5 * v * v > u * u

\* The tiles of a list or set.
TileSet(ts) == {ts[k] : k \in 1..Len(ts)}

\* Every tile there is: those the caller made and those iterate() holds.
Known == TileSet(initial_tiles) \cup TileSet(tiles)

\* The tiles Tile.inflate accepts.
KitesAndDarts == {t \in Known : CanInflate(t)}

\* How many entries of the list c have the given template.
CountShape(c, shape) == Cardinality({k \in 1..Len(c) : c[k].shape = shape})

\* Five kites at one anchor, headings 0, 72, 144, 216, 288, scale 150.
IsSun(ts) ==
    /\ Len(ts) = 5
    /\ \A k \in 1..5 : ts[k] = kite(ts[1].location, 72 * (k - 1), <<150, 0>>)

\* Five darts at one anchor, headings 0, 72, 144, 216, 288, scale 150.
IsStar(ts) ==
    /\ Len(ts) = 5
    /\ \A k \in 1..5 : ts[k] = dart(ts[1].location, 72 * (k - 1), <<150, 0>>)

\* iterate() has completed exactly one round.
AfterOneRound == pc \in {"loop", "done"} /\ i = 1

\* C1: Tile.inflate gives a kite exactly 4 children, 2 darts and 2 kites,
\* and a dart exactly 3 children, 2 darts and 1 kite, whatever the tile's
\* anchor, heading and scale.
ChildCounts ==
    \A t \in KitesAndDarts :
        LET c == TileInflate(t)
        IN  /\ t.shape = KITE =>
                Len(c) = 4 /\ CountShape(c, DART) = 2 /\ CountShape(c, KITE) = 2
            /\ t.shape = DART =>
                Len(c) = 3 /\ CountShape(c, DART) = 2 /\ CountShape(c, KITE) = 1

\* C1's case: after two rounds the set holds darts, and kites of different
\* anchors and headings, at a scale other than the caller's.
ChildCountsWitness ==
    /\ pc = "done" /\ i = 2
    /\ \E d \in TileSet(tiles) : d.shape = DART
    /\ \E k1, k2 \in TileSet(tiles) :
          /\ k1.shape = KITE /\ k2.shape = KITE
          /\ k1.location # k2.location /\ k1.heading # k2.heading
          /\ k1.scale \notin {t.scale : t \in TileSet(initial_tiles)}

\* C2: the children of a tile are those of the rule table: with h the
\* heading, p the points, headingAt(n) = (h + the first n turn angles) mod
\* 360 and s = scale / PHI, a kite gives Dart(p[0], (h-36) mod 360, s),
\* Dart(p[0], (h+36) mod 360, s), Kite(p[1], (headingAt(1)+36) mod 360, s),
\* Kite(p[3], (headingAt(3)-36) mod 360, s); a dart gives Kite(p[0], h, s),
\* Dart(p[1], (headingAt(1)+72) mod 360, s), Dart(p[3], (headingAt(3)-108)
\* mod 360, s).  Every child's scale times PHI is the parent's scale, and
\* kite((0,0), 0, 1) gives the headings 324, 36, 108, 252.
SubstituteRule ==
    \A t \in KitesAndDarts :
        LET c == TileInflate(t)
            p == Points(t)
            h == t.heading
            h1 == (h + t.shape[1][1]) % 360
            h3 == (h + t.shape[1][1] + t.shape[2][1] + t.shape[3][1]) % 360
        IN  /\ \A k \in 1..Len(c) : ZMul(c[k].scale, PHI) = t.scale
            /\ t.shape = KITE =>
                /\ [k \in 1..Len(c) |-> c[k].shape] = <<DART, DART, KITE, KITE>>
                /\ [k \in 1..Len(c) |-> c[k].location] = <<p[1], p[1], p[2], p[4]>>
                /\ [k \in 1..Len(c) |-> c[k].heading] =
                       <<(h - 36) % 360, (h + 36) % 360,
                         (h1 + 36) % 360, (h3 - 36) % 360>>
            /\ t.shape = DART =>
                /\ [k \in 1..Len(c) |-> c[k].shape] = <<KITE, DART, DART>>
                /\ [k \in 1..Len(c) |-> c[k].location] = <<p[1], p[2], p[4]>>
                /\ [k \in 1..Len(c) |-> c[k].heading] =
                       <<h, (h1 + 72) % 360, (h3 - 108) % 360>>
            /\ (t.shape = KITE /\ t.location = ZERO /\ h = 0 /\ t.scale = ONE) =>
                /\ [k \in 1..Len(c) |-> c[k].heading] = <<324, 36, 108, 252>>
                /\ \A k \in 1..Len(c) : c[k].scale = <<-1, 1>>

\* C2's case: kite((0,0), 0, 1) and a dart of unreduced heading have been
\* inflated.
SubstituteRuleWitness ==
    /\ pc = "done" /\ i = 1
    /\ initial_tiles = <<kite(ZERO, 0, ONE), dart(ZERO, 396, ONE)>>

\* C3: a round of inflate() leaves exactly the children of the tiles it was
\* given, each once: the result is the union of the tiles' children, holds
\* no two equal tiles (tiles equal in all four slots are equal records), and
\* so has at most 4 entries per kite and 3 per dart of the input.
InflateIsUnion ==
    [][(pc = "loop" /\ pc' = "loop" /\ i' = i + 1) =>
          /\ TileSet(tiles') =
                 UNION {TileSet(TileInflate(t)) : t \in TileSet(tiles)}
          /\ Cardinality(TileSet(tiles')) = Len(tiles')
          /\ Len(tiles') <= 4 * CountShape(tiles, KITE) + 3 * CountShape(tiles, DART)
      ]_vars

\* C3's case: a list holding one kite twice has been inflated twice, and
\* the set is smaller than the children counted with repetition.
InflateIsUnionWitness ==
    /\ pc = "done" /\ i = 2
    /\ Len(initial_tiles) = 2
    /\ initial_tiles[1] = initial_tiles[2]
    /\ initial_tiles[1] = kite(ZERO, 0, ONE)
    /\ Len(tiles) < 28

\* C4: one round on a SUN leaves fewer than 20 tiles: two kites whose
\* headings differ by 72 degrees both produce one same dart at the common
\* anchor, and the result holds that dart once.
SunSharesDarts ==
    (IsSun(initial_tiles) /\ AfterOneRound) =>
        /\ Len(tiles) < 20
        /\ \A j, k \in 1..5 :
              (initial_tiles[k].heading - initial_tiles[j].heading) % 360 = 72 =>
                  \E d \in TileSet(TileInflate(initial_tiles[j])) \cap
                           TileSet(TileInflate(initial_tiles[k])) :
                      /\ d.shape = DART
                      /\ d.location = initial_tiles[j].location
                      /\ Cardinality({n \in 1..Len(tiles) : TileEq(tiles[n], d)}) = 1

\* C4's case: iterate(SUN, 1) has returned.
SunSharesDartsWitness ==
    pc = "done" /\ iters = 1 /\ initial_tiles = SUN

\* C5, as claimed: one round on a SUN leaves exactly 16 tiles.
SunRoundHas16 == (IsSun(initial_tiles) /\ AfterOneRound) => Len(tiles) = 16

\* C5, amended: one round on a SUN leaves exactly 15 tiles, 10 kites and 5
\* darts.
SunRoundHas15 ==
    (IsSun(initial_tiles) /\ AfterOneRound) =>
        /\ Len(tiles) = 15
        /\ CountShape(tiles, KITE) = 10
        /\ CountShape(tiles, DART) = 5

\* C5's case: the first round on main()'s translated SUN is over.
SunRoundWitness ==
    /\ IsSun(initial_tiles) /\ initial_tiles # SUN
    /\ pc = "loop" /\ i = 1 /\ iters = 2

\* inflate() applied n times in sequence to seed.
RECURSIVE InflateTimes(_, _)
InflateTimes(seed, n) ==
    IF n = 0 THEN seed ELSE InflateAll(InflateTimes(seed, n - 1))

\* C6: iterate(seed, n) returns after exactly n rounds, with inflate()
\* applied n times in sequence to seed; for n = 0 it returns seed.
IterateResult ==
    pc = "done" =>
        /\ i = iters
        /\ tiles = InflateTimes(initial_tiles, iters)
        /\ iters = 0 => tiles = initial_tiles

\* C6's case: iterate(STAR, 2) has returned.
IterateResultWitness ==
    pc = "done" /\ iters = 2 /\ initial_tiles = STAR /\ Len(tiles) > 5

\* C7, as claimed: Tile.points yields exactly 4 points for a kite or a
\* dart, the first of them the anchor.
PointsAreFour ==
    \A t \in KitesAndDarts :
        Len(Points(t)) = 4 /\ Points(t)[1] = t.location

\* C8, as claimed: no tile with a scale <= 0 ever exists.
ScalesArePositive == \A t \in Known : ZPositive(t.scale)

\* C9, as claimed: an(n) is the heading the walk of Tile.points holds after
\* reaching point n, for n = 0..4.
AnIsWalkHeading ==
    \A t \in KitesAndDarts : \A n \in 0..4 : an(t, n) = WalkHeading(t, n)

\* C9, amended: an(n) is the walk's heading, reduced mod 360, for n = 0 and
\* n = 4 only; for n = 1, 2, 3 the two differ, an(n) being the walk's
\* heading mirrored: an(n) + walk heading = 2h + 180n mod 360.
AnMirrorsWalkHeading ==
    \A t \in KitesAndDarts : \A n \in 0..4 :
        /\ (an(t, n) + WalkHeading(t, n)) % 360 = (2 * t.heading + 180 * n) % 360
        /\ n \in {0, 4} => an(t, n) = WalkHeading(t, n) % 360
        /\ n \in {1, 2, 3} => an(t, n) # WalkHeading(t, n) % 360

\* C9's case: kites and darts, of reduced and unreduced heading, have been
\* inflated.
AnMirrorsWitness ==
    /\ pc = "done" /\ i = 2
    /\ initial_tiles = <<kite(ZERO, 396, ONE), dart(ZERO, 0, ONE)>>

\* C10: in every collection reached from a SUN or a STAR each heading is an
\* integer in [0, 360) and a multiple of 36, so two tiles whose headings
\* are the same direction have equal headings.
HeadingsReduced ==
    (IsSun(initial_tiles) \/ IsStar(initial_tiles)) =>
        /\ \A t \in TileSet(tiles) :
              t.heading \in 0..359 /\ t.heading % 36 = 0
        /\ \A t, u \in TileSet(tiles) :
              (t.heading - u.heading) % 360 = 0 => t.heading = u.heading

\* C10's case: two rounds on a STAR, the set holding kites (each the child
\* of a dart, its heading copied) and darts.
HeadingsReducedWitness ==
    /\ IsStar(initial_tiles) /\ pc = "done" /\ i = 2
    /\ \E t \in TileSet(tiles) : t.shape = KITE /\ t.heading = 288
    /\ \E t \in TileSet(tiles) : t.shape = DART

=============================================================================
